---- MODULE Spec2Model ----
\* Model of the Game of Life engine of rust-life (src/src/lib.rs): the sparse
\* live set `space`, the dirty set `cache`, the rejection-sampling `init`
\* and the cache-restricted generation step `next`.
EXTENDS Integers, FiniteSets, Sequences, TLC

\* ---------------------------------------------------------------- bounds
MaxRows == 3
MaxCols == 3
MaxGen == 3

\* ------------------------------------------------------- program state
VARIABLES
    space,       \* Game.space: set of live coordinates
    cache,       \* Game.cache: coordinates the next step evaluates
    size,        \* Game.size: <<rows, cols>>
    generation,  \* Game.generation
    pc,          \* "new": constructed; "init": inside init's loop; "run": init returned Ok
    density,     \* init's argument, an f32 written <<m, k>> for m * 2^-k
    target,      \* init's local `target`, already cast to usize
    ret,         \* init's result: "none", "ok" or "err"
    seed,        \* the live set init handed to the first next()
    calls        \* number of next() calls made so far

vars == <<space, cache, size, generation, pc, density, target, ret, seed, calls>>

\* ------------------------------------------------ single precision (f32)
\* An f32 is written <<m, k>>, the value m * 2^-k with |m| < 2^24.
RECURSIVE BitLen(_)
BitLen(n) == IF n = 0 THEN 0 ELSE 1 + BitLen(n \div 2)

\* Round a non-negative integer to 24 significant bits, ties to even.
F32Round(p) ==
    LET s == BitLen(p) - 24
    IN  IF s <= 0 THEN p
        ELSE LET q    == p \div (2 ^ s)
                 r    == p % (2 ^ s)
                 half == 2 ^ (s - 1)
                 up   == r > half \/ (r = half /\ q % 2 = 1)
             IN  (IF up THEN q + 1 ELSE q) * (2 ^ s)

\* (n as f32) * d, as the mantissa of the result at d's exponent.
F32Mul(n, d) ==
    LET p == F32Round(n) * d[1]
    IN  IF p >= 0 THEN F32Round(p) ELSE 0 - F32Round(0 - p)

\* f32 as usize: truncation, negative values saturate to 0.
AsUsize(mant, k) == IF mant <= 0 THEN 0 ELSE mant \div (2 ^ k)

\* The densities init is called with: -0.1, 0, 1/8, 1/4, 3/8, 1/2,
\* 0.8333333 (the f32 nearest 5/6), 1 and 1.1.
Densities ==
    { <<0 - 13421773, 27>>, <<0, 0>>, <<1, 3>>, <<1, 2>>, <<3, 3>>, <<1, 1>>,
      <<13981013, 24>>, <<1, 0>>, <<9227469, 23>> }

\* ------------------------------------------------------------ helpers
Alive(sp) == Cardinality(sp)

\* Variant: a coordinate off the grid reads as alive.
CellStateOffGridAlive(sp, coord) ==
    \/ coord \in sp
    \/ coord[1] < 0 \/ coord[2] < 0 \/ coord[1] >= size[1] \/ coord[2] >= size[2]

\* Variant: coordinates wrap around the edges of the grid.
CellStateToroidal(sp, coord) == <<coord[1] % size[1], coord[2] % size[2]>> \in sp

CellState(sp, coord) == coord \in sp

SetCellState(sp, coord) == sp \cup {coord}

Neighbors(coord) ==
    LET x == coord[1]
        y == coord[2]
    IN  << <<x + 1, y>>, <<x - 1, y>>, <<x, y + 1>>, <<x, y - 1>>,
           <<x + 1, y + 1>>, <<x + 1, y - 1>>, <<x - 1, y + 1>>, <<x - 1, y - 1>> >>

\* Variant: no bounds test before the insert.
InsertCacheUnfiltered(ch, coords, sz) == ch \cup { coords[i] : i \in DOMAIN coords }

\* Variant: the lower bounds are tested with > instead of >=.
InsertCachePositiveOnly(ch, coords, sz) ==
    ch \cup { coords[i] : i \in { j \in DOMAIN coords :
                 /\ coords[j][1] > 0
                 /\ coords[j][2] > 0
                 /\ sz[1] > coords[j][1]
                 /\ sz[2] > coords[j][2] } }

InsertCache(ch, coords, sz) ==
    ch \cup { coords[i] : i \in { j \in DOMAIN coords :
                 /\ coords[j][1] >= 0
                 /\ coords[j][2] >= 0
                 /\ sz[1] > coords[j][1]
                 /\ sz[2] > coords[j][2] } }

\* next_cell_state: [alive |-> next state, nb |-> neighbours if the state changed]
NoNeighbors == << >>

\* Variant: a live cell with three live neighbours does not survive.
NextCellStateNoSurvive3(sp, coord) ==
    LET neighbors == Neighbors(coord)
        curr_cell == IF CellState(sp, coord) THEN 1 ELSE 0
        total     == Cardinality({ i \in DOMAIN neighbors : CellState(sp, neighbors[i]) })
                       + curr_cell
    IN  CASE total = 3 ->
               IF curr_cell = 0 THEN [alive |-> TRUE, nb |-> neighbors]
                                ELSE [alive |-> TRUE, nb |-> NoNeighbors]
          [] OTHER ->
               IF curr_cell = 1 THEN [alive |-> FALSE, nb |-> neighbors]
                                ELSE [alive |-> FALSE, nb |-> NoNeighbors]

\* Variant: the cell itself is left out of the count.
NextCellStateNoSelf(sp, coord) ==
    LET neighbors == Neighbors(coord)
        curr_cell == IF CellState(sp, coord) THEN 1 ELSE 0
        total     == Cardinality({ i \in DOMAIN neighbors : CellState(sp, neighbors[i]) })
    IN  CASE total = 3 ->
               IF curr_cell = 0 THEN [alive |-> TRUE, nb |-> neighbors]
                                ELSE [alive |-> TRUE, nb |-> NoNeighbors]
          [] total = 4 -> [alive |-> (curr_cell = 1), nb |-> NoNeighbors]
          [] OTHER ->
               IF curr_cell = 1 THEN [alive |-> FALSE, nb |-> neighbors]
                                ELSE [alive |-> FALSE, nb |-> NoNeighbors]

NextCellState(sp, coord) ==
    LET neighbors == Neighbors(coord)
        curr_cell == IF CellState(sp, coord) THEN 1 ELSE 0
        total     == Cardinality({ i \in DOMAIN neighbors : CellState(sp, neighbors[i]) })
                       + curr_cell
    IN  CASE total = 3 ->
               IF curr_cell = 0 THEN [alive |-> TRUE, nb |-> neighbors]
                                ELSE [alive |-> TRUE, nb |-> NoNeighbors]
          [] total = 4 -> [alive |-> (curr_cell = 1), nb |-> NoNeighbors]
          [] OTHER ->
               IF curr_cell = 1 THEN [alive |-> FALSE, nb |-> neighbors]
                                ELSE [alive |-> FALSE, nb |-> NoNeighbors]

\* ---------------------------------------------------------------- init
\* Variant: only the lower end of the range is tested.
DensityRejectedLowOnly(d) == 0 > d[1]

DensityRejected(d) == 0 > d[1] \/ 2 ^ d[2] < d[1]

Target(sz, d) == AsUsize(F32Mul(sz[1] * sz[2], d), d[2])

\* Variant: the loop runs while alive <= target.
InitLoopCondInclusive(alive, tgt) == alive <= tgt

InitLoopCond(alive, tgt) == alive < tgt

\* Variant: the row is drawn from gen_range(0, size.0 - 1).
DrawRangeShort(sz) == (0 .. (sz[1] - 2)) \X (0 .. (sz[2] - 1))

\* gen_range(0, size.0) x gen_range(0, size.1)
DrawRange(sz) == (0 .. (sz[1] - 1)) \X (0 .. (sz[2] - 1))

InitCall(d) ==
    /\ pc = "new"
    /\ density' = d
    /\ IF DensityRejected(d)
         THEN /\ ret' = "err"
              /\ UNCHANGED <<space, cache, size, generation, pc, target, seed, calls>>
         ELSE /\ ret' = "none"
              /\ pc' = "init"
              /\ target' = Target(size, d)
              /\ UNCHANGED <<space, cache, size, generation, seed, calls>>

InitDraw(coord) ==
    /\ pc = "init"
    /\ InitLoopCond(Alive(space), target)
    /\ coord \in DrawRange(size)
    /\ IF ~CellState(space, coord)
         THEN /\ space' = SetCellState(space, coord)
              /\ cache' = InsertCache(cache, Neighbors(coord), size)
         ELSE UNCHANGED <<space, cache>>
    /\ UNCHANGED <<size, generation, pc, density, target, ret, seed, calls>>

InitReturn ==
    /\ pc = "init"
    /\ ~InitLoopCond(Alive(space), target)
    /\ pc' = "run"
    /\ ret' = "ok"
    /\ seed' = space
    /\ UNCHANGED <<space, cache, size, generation, density, target, calls>>

\* ---------------------------------------------------------------- next
\* The iteration orders of cache.iter() the model draws from.
Orders == {"ascending", "descending"}

MinOf(S) == CHOOSE x \in S : \A y \in S : x <= y

MaxOf(S) == CHOOSE x \in S : \A y \in S : x >= y

\* The coordinate the iterator yields first among those left in todo.
First(o, todo) ==
    IF o = "ascending"
      THEN LET r == MinOf({ a[1] : a \in todo })
           IN  <<r, MinOf({ a[2] : a \in { b \in todo : b[1] = r } })>>
      ELSE LET r == MaxOf({ a[1] : a \in todo })
           IN  <<r, MaxOf({ a[2] : a \in { b \in todo : b[1] = r } })>>

\* Variant: next_space starts as a clone of the current space.
NextSpaceInitClone(sp) == sp

NextSpaceInit(sp) == {}

\* Variant: the loop writes each result into the space it is reading.
RECURSIVE NextLoopInPlace(_, _, _, _, _, _)
NextLoopInPlace(todo, o, sp, next_space, ch, sz) ==
    IF todo = {} THEN [space |-> next_space, cache |-> ch]
    ELSE LET coord      == First(o, todo)
             next_state == NextCellState(sp, coord)
             ch1        == IF next_state.alive THEN InsertCache(ch, <<coord>>, sz) ELSE ch
             ns1        == IF next_state.alive THEN next_space \cup {coord} ELSE next_space
             sp1        == IF next_state.alive THEN sp \cup {coord} ELSE sp \ {coord}
             ch2        == InsertCache(ch1, next_state.nb, sz)
         IN  NextLoopInPlace(todo \ {coord}, o, sp1, ns1, ch2, sz)

\* Variant: a cell that lives is added to next_space but not to the cache.
RECURSIVE NextLoopNoSelfInsert(_, _, _, _, _, _)
NextLoopNoSelfInsert(todo, o, sp, next_space, ch, sz) ==
    IF todo = {} THEN [space |-> next_space, cache |-> ch]
    ELSE LET coord      == First(o, todo)
             next_state == NextCellState(sp, coord)
             ns1        == IF next_state.alive THEN next_space \cup {coord} ELSE next_space
             ch2        == InsertCache(ch, next_state.nb, sz)
         IN  NextLoopNoSelfInsert(todo \ {coord}, o, sp, ns1, ch2, sz)

\* The body of `for coord in cache.iter()`, over the coordinates left in todo.
RECURSIVE NextLoop(_, _, _, _, _, _)
NextLoop(todo, o, sp, next_space, ch, sz) ==
    IF todo = {} THEN [space |-> next_space, cache |-> ch]
    ELSE LET coord      == First(o, todo)
             next_state == NextCellState(sp, coord)
             ch1        == IF next_state.alive THEN InsertCache(ch, <<coord>>, sz) ELSE ch
             ns1        == IF next_state.alive THEN next_space \cup {coord} ELSE next_space
             ch2        == InsertCache(ch1, next_state.nb, sz)
         IN  NextLoop(todo \ {coord}, o, sp, ns1, ch2, sz)

\* Variant: next() returns early, without counting, on an empty cache.
NextGenerationSkipEmpty(g, ch) == IF ch = {} THEN g ELSE g + 1

NextGeneration(g, ch) == g + 1

NextStep(o) ==
    /\ pc = "run"
    /\ calls < MaxGen
    /\ LET r == NextLoop(cache, o, space, NextSpaceInit(space), {}, size)
       IN  /\ space' = r.space
           /\ cache' = r.cache
    /\ generation' = NextGeneration(generation, cache)
    /\ calls' = calls + 1
    /\ UNCHANGED <<size, pc, density, target, ret, seed>>

\* ------------------------------------------------------- specification
Init ==
    /\ size \in (0 .. MaxRows) \X (0 .. MaxCols)
    /\ space = {}
    /\ cache = {}
    /\ generation = 0
    /\ pc = "new"
    /\ density = <<0, 0>>
    /\ target = 0
    /\ ret = "none"
    /\ seed = {}
    /\ calls = 0

Next ==
    \/ \E d \in Densities : InitCall(d)
    \/ \E coord \in DrawRange(size) : InitDraw(coord)
    \/ InitReturn
    \/ \E o \in Orders : NextStep(o)

\* init is a running loop: it keeps drawing, the random pick does not avoid
\* the dead cells for ever, and it returns once the loop condition fails.
Fairness ==
    /\ WF_vars(\E coord \in DrawRange(size) : InitDraw(coord))
    /\ WF_vars(InitReturn)

Spec == Init /\ [][Next]_vars

FairSpec == Spec /\ Fairness

\* ------------------------------------------------- direct calls (tests)
\* The coordinates the tests' direct calls are made with, on and off the grid.
ApiCoords ==
    { <<0, 0>>, <<0, 1>>, <<1, 1>>, <<0 - 1, 0>>, <<0, MaxCols>>, <<MaxRows, 0>> }

\* game.set_cell_state(coord) on a new game, as tests::set_cell_in_current_space.
SetCellCall(coord) ==
    /\ pc = "new"
    /\ space' = SetCellState(space, coord)
    /\ UNCHANGED <<cache, size, generation, pc, density, target, ret, seed, calls>>

\* One iteration of tests::prime_test_cache.
PrimeTestCache(coord) ==
    /\ pc = "new"
    /\ space' = SetCellState(space, coord)
    /\ cache' = InsertCache(cache, Neighbors(coord), size)
    /\ UNCHANGED <<size, generation, pc, density, target, ret, seed, calls>>

ApiNext ==
    \/ \E coord \in ApiCoords : SetCellCall(coord)
    \/ \E coord \in ApiCoords : PrimeTestCache(coord)

ApiSpec == Init /\ [][ApiNext]_vars

\* ------------------------------------------------- reference definitions
\* The in-bounds coordinates of a rows x cols grid.
Grid(sz) == { c \in (0 .. (sz[1] - 1)) \X (0 .. (sz[2] - 1)) : TRUE }

\* The eight cells around c.
Moore(c) ==
    { <<c[1] + dr, c[2] + dc>> : dr \in {0 - 1, 0, 1}, dc \in {0 - 1, 0, 1} } \ {c}

\* Live cells among the eight around c, cells off the grid counting as dead.
LiveAround(sp, c, sz) == Cardinality(Moore(c) \cap sp \cap Grid(sz))

\* Conway's rule applied to every cell of the full grid.
LifeStep(sp, sz) ==
    { c \in Grid(sz) :
        LET n == LiveAround(sp, c, sz)
        IN  n = 3 \/ (c \in sp /\ n = 2) }

\* A step of the model that is a call of next().
IsNextCall == calls' = calls + 1

\* ------------------------------------------------------------------ C1
\* C1: from every state reached by a successful init and any number of
\* next() calls, one more next() leaves exactly the live set that the Life
\* rule, applied to every cell of the full grid, gives for the pre-step set.
C1_StepMatchesFullGrid ==
    [][IsNextCall => space' = LifeStep(space, size)]_vars

\* ------------------------------------------------------------------ C2
\* C2: after new, after init and after every next(), alive() equals the
\* number of in-bounds coordinates that cell_state reports alive.
C2_AliveEqualsScan ==
    Alive(space) = Cardinality({ c \in Grid(size) : CellState(space, c) })

C2_Witness ==
    /\ pc = "run"
    /\ calls >= 2
    /\ Alive(space) >= 3
    /\ Alive(space) = Cardinality({ c \in Grid(size) : CellState(space, c) })
\* ------------------------------------------------------------------ C3
\* C3 as stated: a successful init on a new game ends with alive() equal to
\* the floor of the exact product rows * cols * density.
C3_ExactFloor ==
    (pc = "run" /\ calls = 0) =>
        Alive(space) = (size[1] * size[2] * density[1]) \div (2 ^ density[2])

\* C3 amended: init ends with alive() equal to the single-precision product
\* (rows * cols) as f32 * density cast to usize; that is the floor of the
\* exact product whenever the product is representable in f32, 0 for density
\* 0, rows * cols for density 1, and never more than rows * cols.
C3_F32Target ==
    (pc = "run" /\ calls = 0) =>
        LET area  == size[1] * size[2]
            prod  == F32Mul(area, density)
        IN  /\ Alive(space) = AsUsize(prod, density[2])
            /\ (prod = area * density[1]) =>
                   Alive(space) = (area * density[1]) \div (2 ^ density[2])
            /\ (density[1] = 0) => Alive(space) = 0
            /\ (density = <<1, 0>>) => Alive(space) = area
            /\ Alive(space) <= area

C3_Witness ==
    /\ pc = "run"
    /\ calls = 0
    /\ size = <<2, 3>>
    /\ density = <<13981013, 24>>
    /\ Alive(space) = 5

\* ------------------------------------------------------------------ C4
OutsideUnitInterval(d) == d[1] < 0 \/ d[1] > 2 ^ d[2]

\* C4: init called on a new game with a density below 0 or above 1 returns
\* an error and leaves the live set, the cache, the size and the generation
\* as they were, so alive() stays 0.
C4_RejectLeavesGame ==
    [][(pc = "new" /\ OutsideUnitInterval(density')) =>
          /\ ret' = "err"
          /\ pc' = "new"
          /\ UNCHANGED <<space, cache, size, generation>>
          /\ Alive(space') = 0]_vars

C4_Witness ==
    /\ pc = "new"
    /\ ret = "err"
    /\ density = <<9227469, 23>>
    /\ size = <<3, 3>>
    /\ space = {}
    /\ cache = {}

\* ------------------------------------------------------------------ C5
\* C5: a live cell with no live neighbour is dead after one next(), whether
\* or not the cell is in the cache.
C5_IsolatedDies ==
    [][IsNextCall =>
          \A c \in space : LiveAround(space, c, size) = 0 => c \notin space']_vars

C5_Witness ==
    /\ pc = "run"
    /\ calls = 1
    /\ seed = {<<0, 0>>}
    /\ <<0, 0>> \notin cache
    /\ Alive(space) = 0

\* ------------------------------------------------------------------ C6
IsBlock(s) ==
    \E c \in s : s = { c, <<c[1], c[2] + 1>>, <<c[1] + 1, c[2]>>, <<c[1] + 1, c[2] + 1>> }

\* C6: when init leaves exactly a 2x2 block alive, every later state has the
\* same four coordinates alive and alive() = 4.
C6_BlockStable ==
    (pc = "run" /\ IsBlock(seed)) => (space = seed /\ Alive(space) = 4)

C6_Witness ==
    /\ pc = "run"
    /\ calls >= 2
    /\ seed = { <<0, 0>>, <<0, 1>>, <<1, 0>>, <<1, 1>> }
    /\ space = seed

\* ------------------------------------------------------------------ C7
HLine(m) == { <<m[1], m[2] - 1>>, m, <<m[1], m[2] + 1>> }

VLine(m) == { <<m[1] - 1, m[2]>>, m, <<m[1] + 1, m[2]>> }

BoxInBounds(m, sz) ==
    /\ m[1] >= 1 /\ m[1] + 1 < sz[1]
    /\ m[2] >= 1 /\ m[2] + 1 < sz[2]

\* C7: when init leaves exactly three cells in a row alive, the 3x3 box
\* around the middle one in bounds, the live set is the perpendicular line
\* through the same middle after an odd number of next() calls and the
\* original line after an even number.
C7_BlinkerPeriod2 ==
    pc = "run" =>
        \A m \in Grid(size) : BoxInBounds(m, size) =>
            /\ seed = HLine(m) => space = IF calls % 2 = 0 THEN HLine(m) ELSE VLine(m)
            /\ seed = VLine(m) => space = IF calls % 2 = 0 THEN VLine(m) ELSE HLine(m)

C7_Witness ==
    /\ pc = "run"
    /\ calls = 2
    /\ seed = HLine(<<1, 1>>)
    /\ space = seed

\* ------------------------------------------------------------------ C8
\* C8: when alive() is 0, a next() call leaves alive() at 0, whatever the
\* cache holds.
C8_ExtinctionAbsorbing ==
    [][(IsNextCall /\ Alive(space) = 0) => Alive(space') = 0]_vars

\* Two adjacent cells die in the first step and leave their neighbours in
\* the cache; the second step runs on the extinct grid.
C8_Witness ==
    /\ pc = "run"
    /\ calls = 2
    /\ seed = { <<0, 0>>, <<0, 1>> }
    /\ Alive(space) = 0

\* ------------------------------------------------------------------ C9
\* C9: generation() is 0 for a new game, init does not change it, and every
\* next() call adds exactly 1: after k calls it is k.
C9_GenerationCountsCalls ==
    /\ generation = calls
    /\ pc \in {"new", "init"} => generation = 0

\* Two calls on a grid seeded with density 0: empty cache, extinct grid.
C9_Witness ==
    /\ pc = "run"
    /\ seed = {}
    /\ cache = {}
    /\ calls = 2
    /\ generation = 2

\* ----------------------------------------------------------------- C10
\* C10: for every density in [0, 1], 1 included, init's loop ends: once init
\* has started it eventually returns with alive() equal to the target.
C10_InitTerminates ==
    (pc = "init") ~> (pc = "run" /\ ret = "ok" /\ calls = 0 /\ Alive(space) = target)

\* init has returned from density 1: every cell of the grid is alive.
C10_Witness ==
    /\ pc = "run"
    /\ calls = 0
    /\ density = <<1, 0>>
    /\ size = <<3, 3>>
    /\ space = Grid(size)
\* ----------------------------------------------------------------- C11
\* C11: no game with rows = 0 or cols = 0 is ever constructed.
C11_NoZeroDimension == size[1] >= 1 /\ size[2] >= 1

\* ----------------------------------------------------------------- C12
\* C12: setting a cell alive off the grid is refused, so no coordinate
\* outside [0, rows) x [0, cols) is ever reported alive by cell_state.
C12_OffGridNeverAlive ==
    \A c \in ApiCoords : CellState(space, c) => c \in Grid(size)
\* ----------------------------------------------------------------- C13
\* C13 as stated: after a successful init with a target of at least one
\* live cell, the cache holds strictly more coordinates than there are
\* live cells, on every grid size.
C13_CacheLargerThanAlive ==
    (pc = "run" /\ calls = 0 /\ target >= 1) => Cardinality(cache) > Alive(space)

\* C13 amended: after a successful init with a target of at least one live
\* cell on a grid with rows >= 2 and cols >= 2 that init did not fill
\* (alive() < rows * cols), the cache holds strictly more coordinates than
\* there are live cells; on a filled grid of two or more cells it holds
\* exactly as many.
C13_CacheLargerUnlessFull ==
    (pc = "run" /\ calls = 0 /\ target >= 1) =>
        /\ (size[1] >= 2 /\ size[2] >= 2 /\ Alive(space) < size[1] * size[2]) =>
               Cardinality(cache) > Alive(space)
        /\ (Alive(space) = size[1] * size[2] /\ Alive(space) >= 2) =>
               Cardinality(cache) = Alive(space)

\* Four isolated corner cells of a 3x3 grid: the cache is the other five.
C13_Witness ==
    /\ pc = "run"
    /\ calls = 0
    /\ size = <<3, 3>>
    /\ space = { <<0, 0>>, <<0, 2>>, <<2, 0>>, <<2, 2>> }
    /\ Cardinality(cache) = 5

\* ----------------------------------------------------------------- C14
\* C14: going into every next(), every in-bounds coordinate whose Life-rule
\* next state differs from its current state is in the cache.
C14_ChangingCellsCached ==
    pc = "run" =>
        \A c \in Grid(size) :
            ((c \in LifeStep(space, size)) # (c \in space)) => c \in cache

\* ----------------------------------------------------------------- C15
\* C15: after init every live cell and every in-bounds neighbour of a live
\* cell is in the cache.
C15_InitCachesCellAndNeighbours ==
    (pc = "run" /\ calls = 0) =>
        \A c \in space : c \in cache /\ (Moore(c) \cap Grid(size)) \subseteq cache

\* ----------------------------------------------------------------- C16
\* C16: after next(), every coordinate whose liveness changed during the
\* step, and every in-bounds neighbour of it, is in the new cache.
C16_ChangedCellsCachedAfter ==
    [][IsNextCall =>
          \A c \in Grid(size) :
              ((c \in space) # (c \in space')) =>
                  c \in cache' /\ (Moore(c) \cap Grid(size)) \subseteq cache']_vars

\* ----------------------------------------------------------------- C17
\* C17: a next() called with an empty cache leaves the live set as it was
\* and adds 1 to generation.
C17_EmptyCacheFreezes ==
    [][(IsNextCall /\ cache = {}) =>
          (space' = space /\ generation' = generation + 1)]_vars

\* ----------------------------------------------------------------- C18
\* C18: every coordinate c in the cache when next() is called is alive after
\* the step exactly when n = 3, or c was alive and n = 2, n being the number
\* of live cells among c's eight neighbours before the step, neighbours off
\* the grid counting as dead.
C18_CachedCellsFollowRule ==
    [][IsNextCall =>
          \A c \in cache :
              LET n == LiveAround(space, c, size)
              IN  (c \in space') <=> (n = 3 \/ (c \in space /\ n = 2))]_vars

\* An L of three cells in the corner becomes the 2x2 block: (1,1) is born.
C18_Witness ==
    /\ pc = "run"
    /\ calls = 1
    /\ seed = { <<0, 0>>, <<0, 1>>, <<1, 0>> }
    /\ space = { <<0, 0>>, <<0, 1>>, <<1, 0>>, <<1, 1>> }

\* ----------------------------------------------------------------- C19
\* The live set read off the pre-step state alone.
SnapshotSpace(sp, ch) == { c \in ch : NextCellState(sp, c).alive }

\* The cache read off the pre-step state alone.
SnapshotCache(sp, ch, sz) ==
    LET changed(d) == LET nb == NextCellState(sp, d).nb
                      IN  { nb[i] : i \in DOMAIN nb }
    IN  (SnapshotSpace(sp, ch) \cup UNION { changed(d) : d \in ch }) \cap Grid(sz)

\* C19: the live set and the cache after next() are functions of the
\* pre-step live set and cache alone: every iteration order of the cache
\* gives the same pair.
C19_OrderIndependent ==
    [][IsNextCall =>
          /\ space' = SnapshotSpace(space, cache)
          /\ cache' = SnapshotCache(space, cache, size)
          /\ \A o \in Orders :
                 NextLoop(cache, o, space, {}, {}, size) =
                     [space |-> space', cache |-> cache']]_vars

\* A blinker after one step: births and deaths in the same call.
C19_Witness ==
    /\ pc = "run"
    /\ calls = 1
    /\ seed = HLine(<<1, 1>>)
    /\ space = VLine(<<1, 1>>)
    /\ cache = Grid(size)

\* ----------------------------------------------------------------- C20
\* C20: after every call of next(), every live cell is in the cache.
C20_LiveCellsCachedAfterNext ==
    (pc = "run" /\ calls >= 1) => space \subseteq cache

C20_Witness ==
    /\ pc = "run"
    /\ calls >= 1
    /\ Alive(space) >= 4
    /\ space \subseteq cache
    /\ cache # space

\* The same need not hold right after init: a live cell outside the cache.
C20_NotAfterInit ==
    ~(pc = "run" /\ calls = 0 /\ ~(space \subseteq cache))

====
